---- MODULE Spec2Model ----
(***************************************************************************)
(* The crate-version route (version resolution with its fire-and-forget    *)
(* documentation and README requests), the keyword and team routes, the    *)
(* pending-invite component and the crate-owner settings of the crates.io  *)
(* front end, as state machines.  Each workflow has its own specification  *)
(* over the module's variables; a specification leaves the variables of    *)
(* the other workflows at their initial values.                            *)
(***************************************************************************)
EXTENDS Integers, Sequences, FiniteSets, TLC

VARIABLES
    \* ---- crate (the model of the parent 'crate' route) ----
    versions,          \* crate.versions once loaded: sequence of [num, yanked, readme_path]
    max_version,       \* crate.max_version
    documentation,     \* crate.documentation: [host, version]
    readme,            \* crate.readme: Null or the text fetched from a readme_path
    versionsLoad,      \* state of the crate.get('versions') promise
    \* ---- one call of the version route's model(params) ----
    pc,                \* position of the model() call
    rawRequest,        \* params.version_num as the router passed it
    version_num,       \* params.version_num, rewritten by the fallback code
    requestedVersion,  \* const requestedVersion (also controller.requestedVersion)
    scan,              \* the .then(...).then(fetchCrateDocumentation) chain of lines 43-74
    result,            \* index in versions of the version model() returned, 0 before
    flashMessages,     \* flashMessages queue
    docRequests,       \* docs.rs builds.json requests in flight: set of crateVersion
    readmeFetches,     \* README fetches in flight: set of [nav, idx]
    currentUser,       \* session.currentUser is set
    fetchingFollowing, \* controller.fetchingFollowing
    following,         \* controller.following
    followRequests,    \* /following requests in flight: set of nav
    nav,               \* number of model() calls started on this crate
    \* ---- the keyword route and the team route ----
    routeName,         \* the route being entered: "keyword" or "team"
    routeId,           \* keyword_id / team_id as the URL gives it
    paramsTeamId,      \* params.team_id of the team route
    routePc,           \* position of the route's model() call
    routeOutcome,      \* how model() settled
    loadFailure,       \* the error the store rejected with in this visit
    notifications,     \* notifications.error messages shown so far
    visits,            \* number of route visits started
    \* ---- the pending-invite component and its invite record ----
    isAccepted,
    isDeclined,
    isError,
    inviteError,
    accepted,          \* invite.accepted: "pending", "true" or "false"
    saving,            \* the action whose invite.save() is in flight
    saveError,         \* the error the last settled save rejected with
    responses,         \* number of action calls made
    \* ---- the crate settings page: the owners of one crate ----
    owners,            \* the local owner list: users and teams
    ownerRequest,      \* the addOwner / removeOwner request in flight
    ownerResponse,     \* the backend's answer to the last settled request
    ownerNotice,       \* the message shown for the last settled request
    ownerOps           \* number of addOwner / removeOwner calls made

versionVars == <<versions, max_version, documentation, readme, versionsLoad, pc,
                 rawRequest, version_num, requestedVersion, scan, result, flashMessages,
                 docRequests, readmeFetches, currentUser, fetchingFollowing, following,
                 followRequests, nav>>

routeVars == <<routeName, routeId, paramsTeamId, routePc, routeOutcome, loadFailure,
               notifications, visits>>

inviteVars == <<isAccepted, isDeclined, isError, inviteError, accepted, saving,
                saveError, responses>>

ownerVars == <<owners, ownerRequest, ownerResponse, ownerNotice, ownerOps>>

vars == <<versionVars, routeVars, inviteVars, ownerVars>>

----------------------------------------------------------------------------
\* Bounds of the model.

\* most visits of the keyword and team routes
MaxVisits == 2
\* most addOwner and removeOwner calls on the settings page
MaxOwnerOps == 2
\* most calls of the pending-invite component's actions
MaxResponses == 3

\* longest version list of a crate
MaxVersions == 2
\* most visits of the version route on one crate (SpecRevisit)
MaxResolves == 2

----------------------------------------------------------------------------
\* Values.

\* JavaScript null / undefined of crate.readme, and a find() that found nothing
Null == "null"
NotFound == 0

\* The semver strings the model draws version nums and max_version from.
Nums == {"0.0.0", "1.0.0", "1.1.0-beta", "2.0.0-rc"}

\* semver/functions/prerelease: the pre-release identifiers of a version, and
\* null (here the empty tuple) when it has none.
prerelease(v) ==
    CASE v = "1.1.0-beta" -> <<"beta">>
      [] v = "2.0.0-rc"   -> <<"rc">>
      [] OTHER            -> <<>>

isUnstableVersion(v) == prerelease(v) # <<>>

\* readme_path of a version that has a README: the path is named by the num,
\* and so is the text the README endpoint serves at that path.
NoPath == ""
PathOf(num) == num

VersionRecords ==
    { [num |-> n, yanked |-> y, readme_path |-> p] :
        n \in Nums, y \in BOOLEAN, p \in {NoPath} } \cup
    { [num |-> n, yanked |-> y, readme_path |-> PathOf(n)] : n \in Nums, y \in BOOLEAN }

\* Version lists of 1..MaxVersions versions with pairwise different nums (a
\* published crate has at least one version, and a num names one version).
VersionLists ==
    { vs \in UNION { [1..n -> VersionRecords] : n \in 1..MaxVersions } :
        \A i, j \in DOMAIN vs : i # j => vs[i].num # vs[j].num }

\* crate.documentation as [host, version]: host "" is an empty field,
\* DocsRs the 16 characters the route compares with.
DocsRs == "https://docs.rs/"
NoDocumentation == [host |-> "", version |-> ""]
Documentations ==
    { NoDocumentation, [host |-> DocsRs, version |-> ""],
      [host |-> "https://example.com/", version |-> ""] }

\* params.version_num as the router passes it: absent, 'all', or a num.
Requests == {"", "all"} \cup Nums

----------------------------------------------------------------------------
\* The pure parts of model(params).

\* Array.prototype.find over the indices whose element satisfies the callback:
\* the first of them, or NotFound (undefined)
find(matching) ==
    IF matching = {} THEN NotFound
    ELSE CHOOSE i \in matching : \A j \in matching : i <= j

\* lines 46-51: the first version that is stable and not yanked
latestStableVersion(vs) ==
    find({ i \in 1..Len(vs) : ~isUnstableVersion(vs[i].num) /\ ~vs[i].yanked })

\* lines 57-62: the first version that is not yanked
latestUnyankedVersion(vs) ==
    find({ i \in 1..Len(vs) : ~vs[i].yanked })

\* What the callback of lines 45-73 assigns to params.version_num.  The inner
\* test of line 64 reads latestStableVersion, as the source does.
ScanTarget(vs, maxVersion) ==
    LET stable == latestStableVersion(vs)
        unyanked == latestUnyankedVersion(vs)
    IN  IF stable = NotFound
        THEN IF stable = NotFound THEN maxVersion ELSE vs[unyanked]
        ELSE vs[stable].num

\* line 96: versions.find(version => version.get('num') === params.version_num)
findByNum(vs, num) ==
    find({ i \in 1..Len(vs) : vs[i].num = num })

\* line 97: the warning is queued for a truthy params.version_num without a match
LookupWarns(vs, num) ==
    num # "" /\ findByNum(vs, num) = NotFound

\* LookupResult without the last operand, versions.objectAt(0)
LookupResultWithoutFirst(vs, maxVersion, num) ==
    IF findByNum(vs, num) # NotFound THEN findByNum(vs, num)
    ELSE findByNum(vs, maxVersion)

\* LookupResult with the last version of the list for the first
LookupResultLast(vs, maxVersion, num) ==
    IF findByNum(vs, num) # NotFound THEN findByNum(vs, num)
    ELSE Len(vs)

\* line 101: version || versions.find(num === maxVersion) || versions.objectAt(0)
LookupResult(vs, maxVersion, num) ==
    IF findByNum(vs, num) # NotFound THEN findByNum(vs, num)
    ELSE IF findByNum(vs, maxVersion) # NotFound THEN findByNum(vs, maxVersion)
    ELSE IF Len(vs) >= 1 THEN 1
    ELSE NotFound

DoesNotExist(num) == [kind |-> "does not exist", version |-> num]

\* line 28: the documentation field is empty or starts with https://docs.rs/
NeedsDocsRs(doc) ==
    doc.host = "" \/ doc.host = DocsRs

\* fetchCrateDocumentation (lines 27-37): the requests in flight after the call
fetchCrateDocumentation(doc, crateVersion, requests) ==
    IF NeedsDocsRs(doc) THEN requests \cup {crateVersion} ELSE requests

\* lines 20 and 41-81 taken together: the params.version_num in force once
\* the fallback code has run, for the params.version_num the router passed
ResolvedNum(vs, maxVersion, raw) ==
    LET requested == IF raw = "all" THEN "" ELSE raw
    IN  IF requested = "" /\ maxVersion # "0.0.0"
        THEN IF isUnstableVersion(maxVersion) THEN ScanTarget(vs, maxVersion) ELSE maxVersion
        ELSE raw

----------------------------------------------------------------------------
\* The version route: model(params) and the callbacks it leaves behind.

\* The crate as the parent route hands it over, before the version route is
\* entered.
InitCrate ==
    /\ versions \in VersionLists
    /\ max_version \in Nums
    /\ documentation \in Documentations
    /\ readme = Null
    /\ versionsLoad = "unrequested"
    /\ currentUser \in BOOLEAN

InitRoute ==
    /\ pc = "idle"
    /\ rawRequest = ""
    /\ version_num = ""
    /\ requestedVersion = ""
    /\ scan = "none"
    /\ result = NotFound
    /\ flashMessages = <<>>
    /\ docRequests = {}
    /\ readmeFetches = {}
    /\ fetchingFollowing = FALSE
    /\ following = FALSE
    /\ followRequests = {}
    /\ nav = 0

\* no error caught in a route visit; no error caught from invite.save()
NoError == [name |-> "none", hasErrors |-> FALSE, errors |-> <<>>]
NoSaveError == [hasErrors |-> FALSE, errors |-> <<>>, name |-> "none"]

\* The keyword and team routes before any visit.
IdleRoutes ==
    /\ routeName = "none"
    /\ routeId = ""
    /\ paramsTeamId = ""
    /\ routePc = "idle"
    /\ routeOutcome = "none"
    /\ loadFailure = NoError
    /\ notifications = <<>>
    /\ visits = 0

\* The pending-invite component as constructed (lines 5-8), its invite pending.
IdleInvite ==
    /\ isAccepted = FALSE
    /\ isDeclined = FALSE
    /\ isError = FALSE
    /\ inviteError = [text |-> "default error message", detail |-> ""]
    /\ accepted = "pending"
    /\ saving = "none"
    /\ saveError = NoSaveError
    /\ responses = 0

\* The owners of crate nanomsg as the settings tests prepare them (lines
\* 17-27): two users and two teams; nothing requested yet.
User(login) == [kind |-> "user", org |-> "", name |-> login]
Team(org, name) == [kind |-> "team", org |-> org, name |-> name]

NoOwnerRequest == [op |-> "none", owner |-> User("")]

IdleOwners ==
    /\ owners = << User("blabaere"), User("thehydroimpulse"),
                   Team("org", "blabaere"), Team("org", "thehydroimpulse") >>
    /\ ownerRequest = NoOwnerRequest
    /\ ownerResponse = [ok |-> TRUE, errors |-> <<>>]
    /\ ownerNotice = [kind |-> "none", text |-> "", owner |-> User(""), detail |-> ""]
    /\ ownerOps = 0

Init == InitCrate /\ InitRoute /\ IdleRoutes /\ IdleInvite /\ IdleOwners

crateVars == <<versions, max_version, currentUser>>

\* lines 19-94, up to the await: the synchronous part of model(params)
model(raw) ==
    LET requested == IF raw = "all" THEN "" ELSE raw
        fallback == requested = "" /\ max_version # "0.0.0"
    IN  /\ pc = "idle"
        /\ rawRequest' = raw
        /\ requestedVersion' = requested
        /\ nav' = nav + 1
        /\ IF fallback /\ isUnstableVersion(max_version)
           THEN /\ scan' = "registered"
                /\ version_num' = raw
                /\ docRequests' = docRequests
           ELSE IF fallback
           THEN /\ scan' = scan
                /\ version_num' = max_version
                /\ docRequests' = fetchCrateDocumentation(documentation, max_version, docRequests)
           ELSE /\ scan' = scan
                /\ version_num' = raw
                /\ docRequests' = fetchCrateDocumentation(documentation, raw, docRequests)
        /\ fetchingFollowing' = TRUE
        /\ followRequests' = IF currentUser THEN followRequests \cup {nav'} ELSE followRequests
        /\ versionsLoad' = IF versionsLoad = "unrequested" THEN "pending" ELSE versionsLoad
        /\ pc' = "awaiting"
        /\ UNCHANGED <<routeVars, inviteVars, ownerVars, crateVars, documentation, readme, result, flashMessages,
                       readmeFetches, following>>

\* the store answers crate.get('versions')
VersionsLoaded ==
    /\ versionsLoad = "pending"
    /\ versionsLoad' = "loaded"
    /\ UNCHANGED <<routeVars, inviteVars, ownerVars, crateVars, documentation, readme, pc, rawRequest, version_num,
                   requestedVersion, scan, result, flashMessages, docRequests,
                   readmeFetches, fetchingFollowing, following, followRequests, nav>>

\* the request behind crate.get('versions') fails
VersionsLoadFails ==
    /\ versionsLoad = "pending"
    /\ versionsLoad' = "failed"
    /\ UNCHANGED <<routeVars, inviteVars, ownerVars, crateVars, documentation, readme, pc, rawRequest, version_num,
                   requestedVersion, scan, result, flashMessages, docRequests,
                   readmeFetches, fetchingFollowing, following, followRequests, nav>>

\* lines 45-73: the callback registered on the versions promise
FallbackScan ==
    /\ scan = "registered"
    /\ versionsLoad = "loaded"
    /\ version_num' = ScanTarget(versions, max_version)
    /\ scan' = "scanned"
    /\ UNCHANGED <<routeVars, inviteVars, ownerVars, crateVars, documentation, readme, versionsLoad, pc, rawRequest,
                   requestedVersion, result, flashMessages, docRequests,
                   readmeFetches, fetchingFollowing, following, followRequests, nav>>

\* line 74: .then(fetchCrateDocumentation), run after the callback above
ChainedDocumentation ==
    /\ scan = "scanned"
    /\ scan' = "none"
    /\ docRequests' = fetchCrateDocumentation(documentation, version_num, docRequests)
    /\ UNCHANGED <<routeVars, inviteVars, ownerVars, crateVars, documentation, readme, versionsLoad, pc, rawRequest,
                   version_num, requestedVersion, result, flashMessages,
                   readmeFetches, fetchingFollowing, following, followRequests, nav>>

\* lines 43-74 on a rejected versions promise: neither callback runs
ScanChainRejected ==
    /\ scan = "registered"
    /\ versionsLoad = "failed"
    /\ scan' = "none"
    /\ UNCHANGED <<routeVars, inviteVars, ownerVars, crateVars, documentation, readme, versionsLoad, pc, rawRequest,
                   version_num, requestedVersion, result, flashMessages, docRequests,
                   readmeFetches, fetchingFollowing, following, followRequests, nav>>

\* LookupMayRun for a lookup that does not wait for the fallback callback
LookupMayRunEarly ==
    TRUE

\* The continuation of the await of line 94 runs after the callbacks that were
\* registered on the versions promise before it (line 45): then-callbacks of
\* one promise run in the order of their registration.
LookupMayRun ==
    scan # "registered"

\* lines 94-117: the continuation of the await
MainLookup ==
    LET selected == LookupResult(versions, max_version, version_num)
    IN  /\ pc = "awaiting"
        /\ versionsLoad = "loaded"
        /\ LookupMayRun
        /\ flashMessages' = IF LookupWarns(versions, version_num)
                            THEN Append(flashMessages, DoesNotExist(version_num))
                            ELSE flashMessages
        /\ IF selected = NotFound
           THEN \* result is undefined: result.get throws a TypeError
                /\ pc' = "rejected"
                /\ UNCHANGED <<result, readmeFetches>>
           ELSE /\ pc' = "returned"
                /\ result' = selected
                /\ readmeFetches' =
                      IF versions[selected].readme_path # NoPath
                      THEN readmeFetches \cup {[nav |-> nav, idx |-> selected]}
                      ELSE readmeFetches
        /\ UNCHANGED <<routeVars, inviteVars, ownerVars, crateVars, documentation, readme, versionsLoad, rawRequest,
                       version_num, requestedVersion, scan, docRequests,
                       fetchingFollowing, following, followRequests, nav>>

\* line 94 on a rejected versions promise: the await throws, model() rejects
AwaitRejects ==
    /\ pc = "awaiting"
    /\ versionsLoad = "failed"
    /\ pc' = "rejected"
    /\ UNCHANGED <<routeVars, inviteVars, ownerVars, crateVars, documentation, readme, versionsLoad, rawRequest,
                   version_num, requestedVersion, scan, result, flashMessages,
                   docRequests, readmeFetches, fetchingFollowing, following,
                   followRequests, nav>>

\* lines 31-35: builds.json answers with a successful latest build
DocBuilt(crateVersion) ==
    /\ crateVersion \in docRequests
    /\ docRequests' = docRequests \ {crateVersion}
    /\ documentation' = [host |-> DocsRs, version |-> crateVersion]
    /\ UNCHANGED <<routeVars, inviteVars, ownerVars, crateVars, readme, versionsLoad, pc, rawRequest, version_num,
                   requestedVersion, scan, result, flashMessages, readmeFetches,
                   fetchingFollowing, following, followRequests, nav>>

\* lines 31-35: builds.json answers with no build or a failed one
DocNotBuilt(crateVersion) ==
    /\ crateVersion \in docRequests
    /\ docRequests' = docRequests \ {crateVersion}
    /\ UNCHANGED <<routeVars, inviteVars, ownerVars, crateVars, documentation, readme, versionsLoad, pc, rawRequest,
                   version_num, requestedVersion, scan, result, flashMessages,
                   readmeFetches, fetchingFollowing, following, followRequests, nav>>

\* line 31: the builds.json request fails; the promise has no rejection handler
DocRequestFails(crateVersion) ==
    /\ crateVersion \in docRequests
    /\ docRequests' = docRequests \ {crateVersion}
    /\ UNCHANGED <<routeVars, inviteVars, ownerVars, crateVars, documentation, readme, versionsLoad, pc, rawRequest,
                   version_num, requestedVersion, scan, result, flashMessages,
                   readmeFetches, fetchingFollowing, following, followRequests, nav>>

\* lines 105-107: the README answers with an ok status and its text
ReadmeOk(f) ==
    /\ f \in readmeFetches
    /\ readmeFetches' = readmeFetches \ {f}
    /\ readme' = versions[f.idx].readme_path
    /\ UNCHANGED <<routeVars, inviteVars, ownerVars, crateVars, documentation, versionsLoad, pc, rawRequest, version_num,
                   requestedVersion, scan, result, flashMessages, docRequests,
                   fetchingFollowing, following, followRequests, nav>>

\* lines 108-110: the README answers with a status that is not ok
ReadmeNotOk(f) ==
    /\ f \in readmeFetches
    /\ readmeFetches' = readmeFetches \ {f}
    /\ readme' = Null
    /\ UNCHANGED <<routeVars, inviteVars, ownerVars, crateVars, documentation, versionsLoad, pc, rawRequest, version_num,
                   requestedVersion, scan, result, flashMessages, docRequests,
                   fetchingFollowing, following, followRequests, nav>>

\* ReadmeNetworkError without the catch of line 112: the failure reaches model()
ReadmeNetworkErrorEscapes(f) ==
    /\ f \in readmeFetches
    /\ readmeFetches' = readmeFetches \ {f}
    /\ pc' = "rejected"
    /\ UNCHANGED <<routeVars, inviteVars, ownerVars, crateVars, documentation, readme,
                   versionsLoad, rawRequest, version_num, requestedVersion, scan, result,
                   flashMessages, docRequests, fetchingFollowing, following,
                   followRequests, nav>>

\* lines 112-114: the README fetch fails
ReadmeNetworkError(f) ==
    /\ f \in readmeFetches
    /\ readmeFetches' = readmeFetches \ {f}
    /\ readme' = Null
    /\ UNCHANGED <<routeVars, inviteVars, ownerVars, crateVars, documentation, versionsLoad, pc, rawRequest, version_num,
                   requestedVersion, scan, result, flashMessages, docRequests,
                   fetchingFollowing, following, followRequests, nav>>

\* lines 88-90: the /following request answers
FollowingLoaded(n, d) ==
    /\ n \in followRequests
    /\ followRequests' = followRequests \ {n}
    /\ following' = d
    /\ fetchingFollowing' = FALSE
    /\ UNCHANGED <<routeVars, inviteVars, ownerVars, crateVars, documentation, readme, versionsLoad, pc, rawRequest,
                   version_num, requestedVersion, scan, result, flashMessages,
                   docRequests, readmeFetches, nav>>

\* lines 88-90: the /following request fails; only .finally runs
FollowingFails(n) ==
    /\ n \in followRequests
    /\ followRequests' = followRequests \ {n}
    /\ fetchingFollowing' = FALSE
    /\ UNCHANGED <<routeVars, inviteVars, ownerVars, crateVars, documentation, readme, versionsLoad, pc, rawRequest,
                   version_num, requestedVersion, scan, result, flashMessages,
                   docRequests, readmeFetches, following, nav>>

\* The router leaves the version route after model() has settled: the params
\* object and the returned model of that visit are gone.  The next visit calls
\* model() with a new params object on the same crate record.
Leave ==
    /\ pc \in {"returned", "rejected"}
    /\ scan = "none"
    /\ nav < MaxResolves
    /\ pc' = "idle"
    /\ rawRequest' = ""
    /\ version_num' = ""
    /\ requestedVersion' = ""
    /\ result' = NotFound
    /\ UNCHANGED <<routeVars, inviteVars, ownerVars, crateVars, documentation, readme, versionsLoad, scan, flashMessages,
                   docRequests, readmeFetches, fetchingFollowing, following,
                   followRequests, nav>>

\* The steps of one visit, but for the /following request.
VisitNext ==
    \/ \E raw \in Requests : model(raw)
    \/ VersionsLoaded
    \/ VersionsLoadFails
    \/ FallbackScan
    \/ ChainedDocumentation
    \/ ScanChainRejected
    \/ MainLookup
    \/ AwaitRejects
    \/ \E v \in docRequests : DocBuilt(v) \/ DocNotBuilt(v) \/ DocRequestFails(v)
    \/ \E f \in readmeFetches : ReadmeOk(f) \/ ReadmeNotOk(f) \/ ReadmeNetworkError(f)

FollowingNext ==
    \E n \in followRequests : FollowingFails(n) \/ \E d \in BOOLEAN : FollowingLoaded(n, d)

Next == VisitNext \/ FollowingNext

\* One visit of the version route.
Spec == Init /\ [][Next]_vars

\* Repeated visits of the version route on the same crate by an anonymous
\* visitor, for whom line 87 sends no /following request.
InitRevisit == Init /\ ~currentUser

NextRevisit == VisitNext \/ Leave

SpecRevisit == InitRevisit /\ [][NextRevisit]_vars

----------------------------------------------------------------------------
\* Properties of the version route.

Returned == pc = "returned"

StableLive(v) == ~isUnstableVersion(v.num) /\ ~v.yanked

HasStableLive == \E i \in 1..Len(versions) : StableLive(versions[i])

HasLive == \E i \in 1..Len(versions) : ~versions[i].yanked

\* C1: a crate whose max_version is a pre-release and that has a version both
\* stable and not yanked: the version returned for an empty request is stable
\* and not yanked, whatever the order of the steps of the visit.
C1_StableFallback ==
    (Returned /\ rawRequest = "" /\ isUnstableVersion(max_version) /\ HasStableLive)
        => StableLive(versions[result])

\* C1 witness: the fallback scan has passed over a first version that is not
\* both stable and live, and the visit has returned a later one.
C1_Witness ==
    /\ Returned /\ rawRequest = "" /\ isUnstableVersion(max_version)
    /\ ~StableLive(versions[1])
    /\ result = 2
    /\ StableLive(versions[result])

\* The fallback of C2: the first version whose num is max_version, else the
\* first version of the list.
MaxVersionElseFirst ==
    IF \E i \in 1..Len(versions) : versions[i].num = max_version
    THEN CHOOSE i \in 1..Len(versions) :
            /\ versions[i].num = max_version
            /\ \A j \in 1..(i - 1) : versions[j].num # max_version
    ELSE 1

RequestMatchesNothing ==
    /\ requestedVersion # ""
    /\ \A i \in 1..Len(versions) : versions[i].num # requestedVersion

C5_AsStated ==
    (Returned /\ readmeFetches = {})
        => (readme = Null \/ readme = versions[result].readme_path)

\* C6: model() returns on the loaded versions alone: what it returns and the
\* warnings it queues are those of the request and the crate, in every state
\* of the documentation and README requests (in flight, answered, failed),
\* and model() rejects only when the versions load itself has failed.
C6_SideEffectsIsolated ==
    /\ Returned =>
          LET num == ResolvedNum(versions, max_version, rawRequest)
          IN  /\ result = LookupResult(versions, max_version, num)
              /\ flashMessages = IF LookupWarns(versions, num)
                                 THEN <<DoesNotExist(num)>> ELSE <<>>
    /\ pc = "rejected" => versionsLoad = "failed"

\* C6 witness: model() has returned while a documentation request and the
\* README fetch of the returned version are still in flight.
C6_Witness ==
    /\ Returned
    /\ docRequests # {}
    /\ readmeFetches # {}

\* C9 as stated: the request 'all' returns the same version and queues the
\* same warnings as the empty request does.
C9_AsStated ==
    (Returned /\ rawRequest = "all")
        => LET num == ResolvedNum(versions, max_version, "")
           IN  /\ result = LookupResult(versions, max_version, num)
               /\ flashMessages = IF LookupWarns(versions, num)
                                  THEN <<DoesNotExist(num)>> ELSE <<>>

\* C10 as stated: max_version is a pre-release, no version is both stable and
\* live, some version is live: an empty request returns the first live one.
C10_AsStated ==
    (Returned /\ rawRequest = "" /\ isUnstableVersion(max_version)
        /\ ~HasStableLive /\ HasLive)
        => /\ ~versions[result].yanked
           /\ \A j \in 1..(result - 1) : versions[j].yanked

----------------------------------------------------------------------------
\* The keyword route (KeywordRoute.model) and the team route (model).

\* ids a URL can name, and the ids of the team records the store returns
RouteIds == {"unknown", "rust"}
TeamRecordIds == {"1"}

\* Errors the store rejects with: the adapter's NotFoundError of a 404 whose
\* payload is {errors: [{detail: 'Not Found'}]}, the adapter's error of a 500,
\* and an error object that carries no errors array.
NotFoundError == [name |-> "NotFoundError", hasErrors |-> TRUE, errors |-> <<"Not Found">>]
ServerError == [name |-> "ServerError", hasErrors |-> TRUE,
                errors |-> <<"Internal Server Error">>]
PlainError == [name |-> "Error", hasErrors |-> FALSE, errors |-> <<>>]
StoreErrors == {NotFoundError, ServerError, PlainError}

DoesNotExistNotice(kind, id) == [kind |-> kind, id |-> id]

elsewhereOfRoutes == <<versionVars, inviteVars, ownerVars>>

\* the router enters /keywords/:keyword_id; lines 25-27 up to the await
KeywordModel(keyword_id) ==
    /\ routePc = "idle"
    /\ visits < MaxVisits
    /\ visits' = visits + 1
    /\ routeName' = "keyword"
    /\ routeId' = keyword_id
    /\ routePc' = "finding"
    /\ routeOutcome' = "none"
    /\ loadFailure' = NoError
    /\ UNCHANGED <<paramsTeamId, notifications, elsewhereOfRoutes>>

\* line 27: store.find resolves and model() returns the keyword
KeywordFound ==
    /\ routeName = "keyword"
    /\ routePc = "finding"
    /\ routePc' = "settled"
    /\ routeOutcome' = "model"
    /\ UNCHANGED <<routeName, routeId, paramsTeamId, loadFailure, notifications, visits,
                   elsewhereOfRoutes>>

\* lines 28-35: store.find rejects with error
KeywordFindFails(error) ==
    /\ routeName = "keyword"
    /\ routePc = "finding"
    /\ routePc' = "settled"
    /\ loadFailure' = error
    /\ IF error.name = "NotFoundError"
       THEN /\ notifications' = Append(notifications, DoesNotExistNotice("Keyword", routeId))
            /\ routeOutcome' = "redirected"
       ELSE /\ notifications' = notifications
            /\ routeOutcome' = "thrown"
    /\ UNCHANGED <<routeName, routeId, paramsTeamId, visits, elsewhereOfRoutes>>

\* the router enters /teams/:team_id; lines 12-16 up to the first await
TeamModel(team_id) ==
    /\ routePc = "idle"
    /\ visits < MaxVisits
    /\ visits' = visits + 1
    /\ routeName' = "team"
    /\ routeId' = team_id
    /\ paramsTeamId' = team_id
    /\ routePc' = "finding"
    /\ routeOutcome' = "none"
    /\ loadFailure' = NoError
    /\ UNCHANGED <<notifications, elsewhereOfRoutes>>

\* lines 16-20: queryRecord resolves; params.team_id becomes the record's id
\* and the crates query is sent
TeamFound(id) ==
    /\ routeName = "team"
    /\ routePc = "finding"
    /\ paramsTeamId' = id
    /\ routePc' = "querying"
    /\ UNCHANGED <<routeName, routeId, routeOutcome, loadFailure, notifications, visits,
                   elsewhereOfRoutes>>

\* lines 20-22: the crates query resolves and model() returns {crates, team}
TeamCratesFound ==
    /\ routeName = "team"
    /\ routePc = "querying"
    /\ routePc' = "settled"
    /\ routeOutcome' = "model"
    /\ UNCHANGED <<routeName, routeId, paramsTeamId, loadFailure, notifications, visits,
                   elsewhereOfRoutes>>

\* lines 23-28: the catch block of the team route.  e.errors.some throws a
\* TypeError when e has no errors array; an error whose details do not name
\* 'Not Found' leaves the block, and model() returns undefined.
TeamCatch(e) ==
    /\ routePc' = "settled"
    /\ loadFailure' = e
    /\ IF ~e.hasErrors
       THEN /\ notifications' = notifications
            /\ routeOutcome' = "thrown"
       ELSE IF \E i \in 1..Len(e.errors) : e.errors[i] = "Not Found"
       THEN /\ notifications' = Append(notifications, DoesNotExistNotice("Team", paramsTeamId))
            /\ routeOutcome' = "redirected"
       ELSE /\ notifications' = notifications
            /\ routeOutcome' = "undefined"
    /\ UNCHANGED <<routeName, routeId, paramsTeamId, visits, elsewhereOfRoutes>>

\* line 16 rejects
TeamFindFails(e) ==
    /\ routeName = "team"
    /\ routePc = "finding"
    /\ TeamCatch(e)

\* line 20 rejects
TeamCratesFail(e) ==
    /\ routeName = "team"
    /\ routePc = "querying"
    /\ TeamCatch(e)

\* the router is done with the visit (the page, the index route or the error
\* page is shown) and can enter a route again
RouteSettled ==
    /\ routePc = "settled"
    /\ routePc' = "idle"
    /\ UNCHANGED <<routeName, routeId, paramsTeamId, routeOutcome, loadFailure,
                   notifications, visits, elsewhereOfRoutes>>

NextRoutes ==
    \/ \E id \in RouteIds : KeywordModel(id)
    \/ KeywordFound
    \/ \E e \in StoreErrors : KeywordFindFails(e)
    \/ \E id \in RouteIds : TeamModel(id)
    \/ \E id \in TeamRecordIds : TeamFound(id)
    \/ TeamCratesFound
    \/ \E e \in StoreErrors : TeamFindFails(e)
    \/ \E e \in StoreErrors : TeamCratesFail(e)
    \/ RouteSettled

\* One crate record stands by, untouched, while the routes are visited.
InitOneCrate ==
    /\ Init
    /\ versions = <<[num |-> "1.0.0", yanked |-> FALSE, readme_path |-> NoPath]>>
    /\ max_version = "1.0.0"
    /\ documentation = NoDocumentation
    /\ ~currentUser

SpecRoutes == InitOneCrate /\ [][NextRoutes]_vars

\* C7 as stated: a failed load of the keyword or team route either is a
\* not-found error, and then the route notifies with the requested id and
\* redirects to the index route, or is another failure, and then the error is
\* thrown to the router with no notification and no redirect.
C7_AsStated ==
    [][ (routePc # "settled" /\ routePc' = "settled" /\ loadFailure' # NoError)
        => IF loadFailure'.name = "NotFoundError"
           THEN /\ routeOutcome' = "redirected"
                /\ notifications' =
                      Append(notifications,
                             DoesNotExistNotice(IF routeName = "keyword" THEN "Keyword" ELSE "Team",
                                                routeId))
           ELSE /\ routeOutcome' = "thrown"
                /\ notifications' = notifications ]_vars

----------------------------------------------------------------------------
\* The pending-invite component: acceptInvitation and declineInvitation.

\* detail strings of the errors a rejected save carries
Details == {"invitation expired", "crate deleted"}

\* Errors invite.save() rejects with: no errors field, an empty errors list,
\* a list whose first error has a detail.
SaveErrors ==
    { [hasErrors |-> FALSE, errors |-> <<>>, name |-> "Error"],
      [hasErrors |-> TRUE, errors |-> <<>>, name |-> "Error"] } \cup
    { [hasErrors |-> TRUE, errors |-> <<d>>, name |-> "Error"] : d \in Details }

\* the messages of lines 20-22 and 36-38; detail "" is the message without
\* the ': <detail>' part
AcceptMessage == "Error in accepting invite"
DeclineMessage == "Error in declining invite"
InviteMessage(text, detail) == [text |-> text, detail |-> detail]

elsewhereOfInvite == <<versionVars, routeVars, ownerVars>>

\* lines 11-15 up to the await: invite.set('accepted', true); invite.save()
acceptInvitation ==
    /\ saving = "none"
    /\ responses < MaxResponses
    /\ responses' = responses + 1
    /\ accepted' = "true"
    /\ saving' = "accept"
    /\ UNCHANGED <<isAccepted, isDeclined, isError, inviteError, saveError,
                   elsewhereOfInvite>>

\* lines 27-31 up to the await: invite.set('accepted', false); invite.save()
declineInvitation ==
    /\ saving = "none"
    /\ responses < MaxResponses
    /\ responses' = responses + 1
    /\ accepted' = "false"
    /\ saving' = "decline"
    /\ UNCHANGED <<isAccepted, isDeclined, isError, inviteError, saveError,
                   elsewhereOfInvite>>

\* lines 15-16 and 31-32: the save resolves
SaveResolves ==
    /\ saving # "none"
    /\ saving' = "none"
    /\ saveError' = NoSaveError
    /\ isAccepted' = IF saving = "accept" THEN TRUE ELSE isAccepted
    /\ isDeclined' = IF saving = "decline" THEN TRUE ELSE isDeclined
    /\ UNCHANGED <<isError, inviteError, accepted, responses, elsewhereOfInvite>>

\* lines 17-24 and 33-40: the catch block.  error.errors is truthy for an
\* empty list too, and error.errors[0].detail then throws a TypeError after
\* isError has been set: inviteError keeps the value it had.
SaveRejects(error) ==
    /\ saving # "none"
    /\ saving' = "none"
    /\ saveError' = error
    /\ isError' = TRUE
    /\ inviteError' =
          LET text == IF saving = "accept" THEN AcceptMessage ELSE DeclineMessage
          IN  IF error.hasErrors
              THEN IF Len(error.errors) = 0
                   THEN inviteError
                   ELSE InviteMessage(text, error.errors[1])
              ELSE InviteMessage(text, "")
    /\ UNCHANGED <<isAccepted, isDeclined, accepted, responses, elsewhereOfInvite>>

NextInvite ==
    \/ acceptInvitation
    \/ declineInvitation
    \/ SaveResolves
    \/ \E error \in SaveErrors : SaveRejects(error)

SpecInvite == InitOneCrate /\ [][NextInvite]_vars

\* C8 as stated: a rejected save, of either action and with any shape of
\* error, leaves isError true and inviteError the action's message: with
\* ': <detail>' of the first error when there is one, bare otherwise.
C8_AsStated ==
    [][ (saving # "none" /\ saving' = "none" /\ saveError' # NoSaveError)
        => /\ isError'
           /\ inviteError' =
                 InviteMessage(IF saving = "accept" THEN AcceptMessage ELSE DeclineMessage,
                               IF saveError'.hasErrors /\ Len(saveError'.errors) > 0
                               THEN saveError'.errors[1] ELSE "") ]_vars

\* the display flags of the component, and how many of them are set
displayFlags == <<isAccepted, isDeclined, isError>>
FlagsSet == Cardinality({ i \in 1..3 : displayFlags[i] })

\* C11 as stated: at most one of isAccepted, isDeclined, isError is true in
\* every reachable state, and once one of them is true no later step of
\* acceptInvitation or declineInvitation, with its save resolved or rejected,
\* changes any of the three.
C11_AsStated ==
    /\ [](FlagsSet <= 1)
    /\ [][ FlagsSet >= 1 => displayFlags' = displayFlags ]_vars

\* a save of the first action call has been rejected
FirstSaveRejected ==
    responses = 1 /\ saving = "none" /\ saveError # NoSaveError

\* C12 as stated: invite.accepted is "true" or "false" only once a save has
\* succeeded, so it is still "pending" after a first call whose save was
\* rejected, and a value other than "pending" is never replaced.
C12_AsStated ==
    /\ [](accepted # "pending" => (isAccepted \/ isDeclined))
    /\ [](FirstSaveRejected => accepted = "pending")
    /\ [][ accepted # "pending" => accepted' = accepted ]_vars

----------------------------------------------------------------------------
\* The crate settings page: addOwner and removeOwner.  The controller is not
\* among the sources; the operations follow section 4.2 of the specification
\* and the settings acceptance tests.

\* logins typed into the invite form: one the backend knows, one it does not
InviteLogins == {"iain8", "spookyghostboo"}

\* Answers of the backend: transport success or not, with the details of an
\* errors payload (the backend also sends such a payload with HTTP 200).
OwnerResponses ==
    { [ok |-> k, errors |-> e] : k \in BOOLEAN, e \in {<<>>, <<"nope">>} }

\* RequestSucceeded read off the transport alone
RequestSucceededByStatus(response) ==
    response.ok

\* a request succeeded when the transport did and the payload has no errors
RequestSucceeded(response) ==
    response.ok /\ response.errors = <<>>

FirstDetail(response) ==
    IF response.errors = <<>> THEN "" ELSE response.errors[1]

elsewhereOfOwners == <<versionVars, routeVars, inviteVars>>

\* addOwner(crate, login): the invite request is sent
addOwner(login) ==
    /\ ownerRequest = NoOwnerRequest
    /\ ownerOps < MaxOwnerOps
    /\ ownerOps' = ownerOps + 1
    /\ ownerRequest' = [op |-> "add", owner |-> User(login)]
    /\ UNCHANGED <<owners, ownerResponse, ownerNotice, elsewhereOfOwners>>

\* the invite request settles: a message either way, the owner list as it was
AddOwnerSettles(response) ==
    /\ ownerRequest.op = "add"
    /\ ownerRequest' = NoOwnerRequest
    /\ ownerResponse' = response
    /\ ownerNotice' =
          IF RequestSucceeded(response)
          THEN [kind |-> "success", text |-> "An invite has been sent to",
                owner |-> ownerRequest.owner, detail |-> ""]
          ELSE [kind |-> "error", text |-> "Error sending invite",
                owner |-> ownerRequest.owner, detail |-> FirstDetail(response)]
    /\ UNCHANGED <<owners, ownerOps, elsewhereOfOwners>>

\* removeOwner(crate, owner): the delete request for a listed owner is sent
removeOwner(i) ==
    /\ ownerRequest = NoOwnerRequest
    /\ ownerOps < MaxOwnerOps
    /\ i \in 1..Len(owners)
    /\ ownerOps' = ownerOps + 1
    /\ ownerRequest' = [op |-> "remove", owner |-> owners[i]]
    /\ UNCHANGED <<owners, ownerResponse, ownerNotice, elsewhereOfOwners>>

\* the delete request settles: on success the owner leaves the local list
RemoveOwnerSettles(response) ==
    /\ ownerRequest.op = "remove"
    /\ ownerRequest' = NoOwnerRequest
    /\ ownerResponse' = response
    /\ IF RequestSucceeded(response)
       THEN /\ owners' = SelectSeq(owners, LAMBDA o : o # ownerRequest.owner)
            /\ ownerNotice' = [kind |-> "success", text |-> "removed as crate owner",
                               owner |-> ownerRequest.owner, detail |-> ""]
       ELSE /\ owners' = owners
            /\ ownerNotice' = [kind |-> "error", text |-> "Failed to remove",
                               owner |-> ownerRequest.owner,
                               detail |-> FirstDetail(response)]
    /\ UNCHANGED <<ownerOps, elsewhereOfOwners>>

NextOwners ==
    \/ \E login \in InviteLogins : addOwner(login)
    \/ \E response \in OwnerResponses : AddOwnerSettles(response)
    \/ \E i \in 1..Len(owners) : removeOwner(i)
    \/ \E response \in OwnerResponses : RemoveOwnerSettles(response)

SpecOwners == InitOneCrate /\ [][NextOwners]_vars

\* C4: the local owner list changes only in the step that settles a
\* removeOwner request with success, and then exactly the targeted owner
\* leaves it; the step that settles an addOwner request, and the step that
\* settles a removeOwner request with a failure or with an errors payload
\* (HTTP 200 included), leave it as it was.
C4_OwnerListFrame ==
    [][ /\ owners' # owners
           => /\ ownerRequest.op = "remove"
              /\ ownerResponse'.ok /\ ownerResponse'.errors = <<>>
              /\ Len(owners') = Len(owners) - 1
              /\ \A i \in 1..Len(owners') : owners'[i] # ownerRequest.owner
              /\ \A i \in 1..Len(owners) :
                    owners[i] # ownerRequest.owner
                        => \E j \in 1..Len(owners') : owners'[j] = owners[i]
        /\ (ownerRequest.op = "add" /\ ownerRequest'.op = "none") => owners' = owners
        /\ (ownerRequest.op = "remove" /\ ownerRequest'.op = "none"
              /\ (~ownerResponse'.ok \/ ownerResponse'.errors # <<>>))
           => owners' = owners ]_vars

\* C4 witness: user thehydroimpulse was removed with success (one user and two
\* teams are left), and then a removal was answered with HTTP 200 and an
\* errors payload, which left the three owners in the list.
C4_Witness ==
    /\ owners = << User("blabaere"), Team("org", "blabaere"), Team("org", "thehydroimpulse") >>
    /\ ownerNotice.kind = "error"
    /\ ownerNotice.text = "Failed to remove"
    /\ ownerResponse = [ok |-> TRUE, errors |-> <<"nope">>]

====
